---- MODULE Spec2Model ----
(***************************************************************************)
(* The ZFS ARC statistics collector of collector/zfs_solaris.go: the       *)
(* descriptor table built by NewZfsCollector and the collection cycle      *)
(* Update -> updateZfsArcStats, run against the kstat facility and a       *)
(* metrics channel.                                                        *)
(***************************************************************************)
EXTENDS Integers, Sequences, FiniteSets, Bags, TLC

(***************************************************************************)
(* Bounds of the model.                                                    *)
(***************************************************************************)
\* kstat snapshots 0..MaxSnapshot are the facility contents tried
MaxSnapshot == 1
\* map iteration strides 1..MaxStride (those coprime with the map size)
MaxStride == 3

\* The invocations of Update that are modelled.
Cycles == {1, 2}

(***************************************************************************)
(* Strings (package strings, string concatenation).                        *)
(***************************************************************************)
\* the suffix compared without its leading separator
HasSuffixNoSeparator(s, suffix) ==
    /\ Len(s) >= Len(suffix) - 1
    /\ SubSeq(s, Len(s) - Len(suffix) + 2, Len(s)) = SubSeq(suffix, 2, Len(suffix))

HasSuffix(s, suffix) ==
    /\ Len(s) >= Len(suffix)
    /\ SubSeq(s, Len(s) - Len(suffix) + 1, Len(s)) = suffix

(***************************************************************************)
(* Values of the prometheus and kstat libraries the collector uses.        *)
(***************************************************************************)
ZeroValue == "ValueType(0)"
CounterValue == "CounterValue"
GaugeValue == "GaugeValue"

nil == "<nil>"
NoTok == 0
NoKStat == [tok |-> NoTok, module |-> "", instance |-> 0, name |-> ""]
NoDesc == [fqName |-> "", help |-> ""]

namespace == "node"
zfsCollectorSubsystem == "zfs"

BuildFQName(ns, subsystem, name) ==
    IF name = "" THEN ""
    ELSE IF ns # "" /\ subsystem # "" THEN ns \o "_" \o subsystem \o "_" \o name
    ELSE IF ns # "" THEN ns \o "_" \o name
    ELSE IF subsystem # "" THEN subsystem \o "_" \o name
    ELSE name

NewDesc(fqName, help) == [fqName |-> fqName, help |-> help]

\* float64(u) for an unsigned u: the value m * 2^e with m odd (or 0); exact
\* for every u below 2^53, which covers all values the model draws.
RECURSIVE Normalise(_, _)
Normalise(m, e) ==
    IF m = 0 THEN [mant |-> 0, exp |-> 0]
    ELSE IF m % 2 = 0 THEN Normalise(m \div 2, e + 1)
    ELSE [mant |-> m, exp |-> e]

float64(u) == Normalise(u, 0)

MustNewConstMetric(desc, valueType, value) ==
    [desc |-> desc, valueType |-> valueType, value |-> value]

(***************************************************************************)
(* The descriptor table.                                                   *)
(***************************************************************************)
NewZfsCollector ==
    [arcstatsC |-> NewDesc(BuildFQName(namespace, zfsCollectorSubsystem, "arcstats_c_bytes"),
                           "ZFS ARC target size"),
     arcstatsCMax |-> NewDesc(BuildFQName(namespace, zfsCollectorSubsystem, "arcstats_c_max_bytes"),
                           "ZFS ARC maximum size"),
     arcstatsCMin |-> NewDesc(BuildFQName(namespace, zfsCollectorSubsystem, "arcstats_c_min_bytes"),
                           "ZFS ARC minimum size"),
     arcstatsDataSize |-> NewDesc(BuildFQName(namespace, zfsCollectorSubsystem, "arcstats_data_bytes"),
                           "ZFS ARC data size"),
     arcstatsDemandDataHits |-> NewDesc(BuildFQName(namespace, zfsCollectorSubsystem, "arcstats_demand_data_hits_total"),
                           "ZFS ARC demand data hits"),
     arcstatsDemandDataMisses |-> NewDesc(BuildFQName(namespace, zfsCollectorSubsystem, "arcstats_demand_data_misses_total"),
                           "ZFS ARC demand data misses"),
     arcstatsDemandMetadataHits |-> NewDesc(BuildFQName(namespace, zfsCollectorSubsystem, "arcstats_demand_metadata_hits_total"),
                           "ZFS ARC demand metadata hits"),
     arcstatsDemandMetadataMisses |-> NewDesc(BuildFQName(namespace, zfsCollectorSubsystem, "arcstats_demand_metadata_misses_total"),
                           "ZFS ARC demand metadata misses"),
     arcstatsHits |-> NewDesc(BuildFQName(namespace, zfsCollectorSubsystem, "arcstats_hits_total"),
                           "ZFS ARC hits"),
     arcstatsMisses |-> NewDesc(BuildFQName(namespace, zfsCollectorSubsystem, "arcstats_misses_total"),
                           "ZFS ARC misses"),
     arcstatsMFUGhostHits |-> NewDesc(BuildFQName(namespace, zfsCollectorSubsystem, "arcstats_mfu_ghost_hits_total"),
                           "ZFS ARC MFU ghost hits"),
     arcstatsMRUGhostHits |-> NewDesc(BuildFQName(namespace, zfsCollectorSubsystem, "arcstats_mru_ghost_hits_total"),
                           "ZFS ARC MRU ghost hits"),
     arcstatsOtherSize |-> NewDesc(BuildFQName(namespace, zfsCollectorSubsystem, "arcstats_other_bytes"),
                           "ZFS ARC other size"),
     arcstatsP |-> NewDesc(BuildFQName(namespace, zfsCollectorSubsystem, "arcstats_p_bytes"),
                           "ZFS ARC MRU target size"),
     arcstatsSize |-> NewDesc(BuildFQName(namespace, zfsCollectorSubsystem, "arcstats_size_bytes"),
                           "ZFS ARC size")]

\* the literal without its last entry
FieldMapLiteralShort ==
    << <<"c", "arcstatsC">>,
       <<"c_max", "arcstatsCMax">>,
       <<"c_min", "arcstatsCMin">>,
       <<"data_size", "arcstatsDataSize">>,
       <<"demand_data_hits", "arcstatsDemandDataHits">>,
       <<"demand_data_misses", "arcstatsDemandDataMisses">>,
       <<"demand_metadata_hits", "arcstatsDemandMetadataHits">>,
       <<"demand_metadata_misses", "arcstatsDemandMetadataMisses">>,
       <<"hits", "arcstatsHits">>,
       <<"misses", "arcstatsMisses">>,
       <<"mfu_ghost_hits", "arcstatsMFUGhostHits">>,
       <<"mru_ghost_hits", "arcstatsMRUGhostHits">>,
       <<"other_size", "arcstatsOtherSize">>,
       <<"p", "arcstatsP">> >>

\* the literal with p given the descriptor of size
FieldMapLiteralAliased ==
    << <<"c", "arcstatsC">>,
       <<"c_max", "arcstatsCMax">>,
       <<"c_min", "arcstatsCMin">>,
       <<"data_size", "arcstatsDataSize">>,
       <<"demand_data_hits", "arcstatsDemandDataHits">>,
       <<"demand_data_misses", "arcstatsDemandDataMisses">>,
       <<"demand_metadata_hits", "arcstatsDemandMetadataHits">>,
       <<"demand_metadata_misses", "arcstatsDemandMetadataMisses">>,
       <<"hits", "arcstatsHits">>,
       <<"misses", "arcstatsMisses">>,
       <<"mfu_ghost_hits", "arcstatsMFUGhostHits">>,
       <<"mru_ghost_hits", "arcstatsMRUGhostHits">>,
       <<"other_size", "arcstatsOtherSize">>,
       <<"p", "arcstatsSize">>,
       <<"size", "arcstatsSize">> >>

\* The map literal ranged over by updateZfsArcStats, in source order: the
\* kstat field name and the collector member holding its descriptor.
FieldMapLiteral ==
    << <<"c", "arcstatsC">>,
       <<"c_max", "arcstatsCMax">>,
       <<"c_min", "arcstatsCMin">>,
       <<"data_size", "arcstatsDataSize">>,
       <<"demand_data_hits", "arcstatsDemandDataHits">>,
       <<"demand_data_misses", "arcstatsDemandDataMisses">>,
       <<"demand_metadata_hits", "arcstatsDemandMetadataHits">>,
       <<"demand_metadata_misses", "arcstatsDemandMetadataMisses">>,
       <<"hits", "arcstatsHits">>,
       <<"misses", "arcstatsMisses">>,
       <<"mfu_ghost_hits", "arcstatsMFUGhostHits">>,
       <<"mru_ghost_hits", "arcstatsMRUGhostHits">>,
       <<"other_size", "arcstatsOtherSize">>,
       <<"p", "arcstatsP">>,
       <<"size", "arcstatsSize">> >>

MapLen == Len(FieldMapLiteral)
FieldNames == {FieldMapLiteral[i][1] : i \in 1..MapLen}
FieldIndex(f) == CHOOSE i \in 1..MapLen : FieldMapLiteral[i][1] = f
MemberOf(f) == FieldMapLiteral[FieldIndex(f)][2]

(***************************************************************************)
(* Map iteration.  The order of a range over a map is not specified; the   *)
(* runtime's choice is an input: the iteration starts at entry `start` of  *)
(* the literal and advances by `stride` around it.                         *)
(***************************************************************************)
RECURSIVE GCD(_, _)
GCD(a, b) == IF b = 0 THEN a ELSE GCD(b, a % b)

Seeds(maxStart, maxStride) ==
    {[start |-> a, stride |-> s] :
        a \in 0..maxStart,
        s \in {t \in 1..maxStride : GCD(t, MapLen) = 1}}

\* every start, strides up to MaxStride
AllSeeds == Seeds(MapLen - 1, MaxStride)
\* source order and reverse source order
FewSeeds == {[start |-> 0, stride |-> 1], [start |-> MapLen - 1, stride |-> MapLen - 1]}

\* every start in source direction, and reverse source order
SeqSeeds == Seeds(MapLen - 1, 1) \cup FewSeeds

NoIter == [start |-> 0, stride |-> 0, n |-> 0]
IterEntry(it) == FieldMapLiteral[((it.start + it.n * it.stride) % MapLen) + 1]

(***************************************************************************)
(* The kstat facility.                                                     *)
(***************************************************************************)
KstatErrs == {"No such file or directory", "Permission denied"}

\* contents of the arcstats group in snapshot s
Snapshot(s) == [f \in FieldNames |-> s * (FieldIndex(f) + 49)]

(***************************************************************************)
(* State.                                                                  *)
(***************************************************************************)
VARIABLES
    c,        \* the collector: its descriptor members
    kstat,    \* the arcstats group: field name -> value
    missing,  \* field names the group does not carry
    tokens,   \* kstat tokens handed out: open?, times closed, cycle that opened it
    ch,       \* the metrics channel: bag of metrics received, tagged with the sending cycle
    pc,       \* per cycle: position in Update / updateZfsArcStats
    locals,   \* per frame: the local variables of updateZfsArcStats
    iter,     \* per cycle: the state of the range over the map
    defers,   \* per cycle: the deferred calls of updateZfsArcStats
    ret,      \* per cycle: the value updateZfsArcStats returns
    result,   \* per cycle: the value Update returned
    log       \* per cycle: the facility calls made, with their outcome

vars == <<c, kstat, missing, tokens, ch, pc, locals, iter, defers, ret, result, log>>

ZeroLocals ==
    [metricType |-> ZeroValue, tok |-> NoTok, ksZFSInfo |-> NoKStat,
     k |-> "", v |-> NoDesc, ksZFSInfoValue |-> [UintVal |-> 0], err |-> nil]

\* the locals kept in one place for all invocations
SharedFrame(cy) == 1

\* The locals of an invocation live in that invocation's own frame.
Frame(cy) == cy

L(cy) == locals[Frame(cy)]

Called(cy, op, arg, err) == log' = [log EXCEPT ![cy] = @ \cup {[op |-> op, arg |-> arg, err |-> err]}]

InitWith(snapshots, missings) ==
    /\ c = NewZfsCollector
    /\ kstat \in {Snapshot(s) : s \in snapshots}
    /\ missing \in missings
    /\ tokens = <<>>
    /\ ch = EmptyBag
    /\ pc = [cy \in Cycles |-> "idle"]
    /\ locals = [fr \in Cycles |-> ZeroLocals]
    /\ iter = [cy \in Cycles |-> NoIter]
    /\ defers = [cy \in Cycles |-> <<>>]
    /\ ret = [cy \in Cycles |-> nil]
    /\ result = [cy \in Cycles |-> nil]
    /\ log = [cy \in Cycles |-> {}]

\* A kernel build carries every field, or lacks one of them.
AnyOneMissing == {{}} \cup {{f} : f \in FieldNames}
FewMissing == {{}, {"p"}}

(***************************************************************************)
(* Update and updateZfsArcStats, statement by statement.                   *)
(***************************************************************************)
\* Update calls updateZfsArcStats; var metricType is declared.
Call(cy) ==
    /\ pc[cy] = "idle"
    /\ pc' = [pc EXCEPT ![cy] = "open"]
    /\ locals' = [locals EXCEPT ![Frame(cy)] = ZeroLocals]
    /\ UNCHANGED <<c, kstat, missing, tokens, ch, iter, defers, ret, result, log>>

\* tok, err := kstat.Open() succeeds
OpenOK(cy) ==
    /\ pc[cy] = "open"
    /\ tokens' = Append(tokens, [open |-> TRUE, closes |-> 0, owner |-> cy])
    /\ locals' = [locals EXCEPT ![Frame(cy)].tok = Len(tokens) + 1,
                                ![Frame(cy)].err = nil]
    /\ Called(cy, "Open", "", nil)
    /\ pc' = [pc EXCEPT ![cy] = "defer"]
    /\ UNCHANGED <<c, kstat, missing, ch, iter, defers, ret, result>>

\* kstat.Open() fails: return err
OpenErr(cy, e) ==
    /\ pc[cy] = "open"
    /\ locals' = [locals EXCEPT ![Frame(cy)].err = e]
    /\ ret' = [ret EXCEPT ![cy] = e]
    /\ Called(cy, "Open", "", e)
    /\ pc' = [pc EXCEPT ![cy] = "return"]
    /\ UNCHANGED <<c, kstat, missing, tokens, ch, iter, defers, result>>

\* the defer statement forgotten
NoDeferClose(cy) ==
    /\ pc[cy] = "defer"
    /\ pc' = [pc EXCEPT ![cy] = "lookup"]
    /\ UNCHANGED <<c, kstat, missing, tokens, ch, locals, iter, defers, ret, result, log>>

\* defer tok.Close(): the receiver is evaluated now, the call runs at return
DeferClose(cy) ==
    /\ pc[cy] = "defer"
    /\ defers' = [defers EXCEPT ![cy] = <<[fn |-> "Close", tok |-> L(cy).tok]>> \o @]
    /\ pc' = [pc EXCEPT ![cy] = "lookup"]
    /\ UNCHANGED <<c, kstat, missing, tokens, ch, locals, iter, ret, result, log>>

\* ksZFSInfo, err := tok.Lookup("zfs", 0, "arcstats") succeeds
LookupOK(cy) ==
    /\ pc[cy] = "lookup"
    /\ locals' = [locals EXCEPT
           ![Frame(cy)].ksZFSInfo = [tok |-> L(cy).tok, module |-> "zfs",
                                     instance |-> 0, name |-> "arcstats"],
           ![Frame(cy)].err = nil]
    /\ Called(cy, "Lookup", "arcstats", nil)
    /\ pc' = [pc EXCEPT ![cy] = "rangeinit"]
    /\ UNCHANGED <<c, kstat, missing, tokens, ch, iter, defers, ret, result>>

\* a failed lookup taken for a success
LookupErrIgnored(cy, e) ==
    /\ pc[cy] = "lookup"
    /\ locals' = [locals EXCEPT ![Frame(cy)].err = e]
    /\ Called(cy, "Lookup", "arcstats", e)
    /\ pc' = [pc EXCEPT ![cy] = "rangeinit"]
    /\ UNCHANGED <<c, kstat, missing, tokens, ch, iter, defers, ret, result>>

\* tok.Lookup fails: return err
LookupErr(cy, e) ==
    /\ pc[cy] = "lookup"
    /\ locals' = [locals EXCEPT ![Frame(cy)].err = e]
    /\ ret' = [ret EXCEPT ![cy] = e]
    /\ Called(cy, "Lookup", "arcstats", e)
    /\ pc' = [pc EXCEPT ![cy] = "return"]
    /\ UNCHANGED <<c, kstat, missing, tokens, ch, iter, defers, result>>

\* the range statement starts iterating the map literal
RangeInit(cy, seed) ==
    /\ pc[cy] = "rangeinit"
    /\ iter' = [iter EXCEPT ![cy] = [start |-> seed.start, stride |-> seed.stride, n |-> 0]]
    /\ pc' = [pc EXCEPT ![cy] = "range"]
    /\ UNCHANGED <<c, kstat, missing, tokens, ch, locals, defers, ret, result, log>>

\* for k, v := range ...: the next entry
RangeNext(cy) ==
    /\ pc[cy] = "range"
    /\ iter[cy].n < MapLen
    /\ locals' = [locals EXCEPT ![Frame(cy)].k = IterEntry(iter[cy])[1],
                                ![Frame(cy)].v = c[IterEntry(iter[cy])[2]]]
    /\ iter' = [iter EXCEPT ![cy].n = @ + 1]
    /\ pc' = [pc EXCEPT ![cy] = "getnamed"]
    /\ UNCHANGED <<c, kstat, missing, tokens, ch, defers, ret, result, log>>

\* the map is exhausted: return nil
RangeEnd(cy) ==
    /\ pc[cy] = "range"
    /\ iter[cy].n = MapLen
    /\ ret' = [ret EXCEPT ![cy] = nil]
    /\ pc' = [pc EXCEPT ![cy] = "return"]
    /\ UNCHANGED <<c, kstat, missing, tokens, ch, locals, iter, defers, result, log>>

\* ksZFSInfoValue, err := ksZFSInfo.GetNamed(k) succeeds
GetNamedOK(cy) ==
    /\ pc[cy] = "getnamed"
    /\ L(cy).k \notin missing
    /\ locals' = [locals EXCEPT
           ![Frame(cy)].ksZFSInfoValue = [UintVal |-> kstat[L(cy).k]],
           ![Frame(cy)].err = nil]
    /\ Called(cy, "GetNamed", L(cy).k, nil)
    /\ pc' = [pc EXCEPT ![cy] = "classify"]
    /\ UNCHANGED <<c, kstat, missing, tokens, ch, iter, defers, ret, result>>

\* a failed fetch skipped, the loop carrying on
GetNamedErrContinue(cy, e) ==
    /\ pc[cy] = "getnamed"
    /\ L(cy).k \in missing
    /\ locals' = [locals EXCEPT ![Frame(cy)].err = e]
    /\ Called(cy, "GetNamed", L(cy).k, e)
    /\ pc' = [pc EXCEPT ![cy] = "range"]
    /\ UNCHANGED <<c, kstat, missing, tokens, ch, iter, defers, ret, result>>

\* ksZFSInfo.GetNamed(k) fails: return the error wrapped with the field name
GetNamedErr(cy, e) ==
    /\ pc[cy] = "getnamed"
    /\ L(cy).k \in missing
    /\ locals' = [locals EXCEPT ![Frame(cy)].err = e]
    /\ ret' = [ret EXCEPT ![cy] = "ksZFSInfo.GetNamed(" \o L(cy).k \o "): " \o e]
    /\ Called(cy, "GetNamed", L(cy).k, e)
    /\ pc' = [pc EXCEPT ![cy] = "return"]
    /\ UNCHANGED <<c, kstat, missing, tokens, ch, iter, defers, result>>

\* the if without its else branch
ValueTypeNoElse(k, metricType) ==
    IF HasSuffix(k, "_hits") \/ HasSuffix(k, "_misses")
    THEN CounterValue
    ELSE metricType

\* the if/else on the suffix of k: the new value of metricType
ValueTypeOf(k, metricType) ==
    IF HasSuffix(k, "_hits") \/ HasSuffix(k, "_misses")
    THEN CounterValue
    ELSE GaugeValue

Classify(cy) ==
    /\ pc[cy] = "classify"
    /\ locals' = [locals EXCEPT
           ![Frame(cy)].metricType = ValueTypeOf(L(cy).k, L(cy).metricType)]
    /\ pc' = [pc EXCEPT ![cy] = "send"]
    /\ UNCHANGED <<c, kstat, missing, tokens, ch, iter, defers, ret, result, log>>

\* ch <- prometheus.MustNewConstMetric(v, metricType, float64(ksZFSInfoValue.UintVal))
Send(cy) ==
    /\ pc[cy] = "send"
    /\ ch' = ch (+) SetToBag({[from |-> cy,
                 metric |-> MustNewConstMetric(L(cy).v, L(cy).metricType,
                                float64(L(cy).ksZFSInfoValue.UintVal))]})
    /\ pc' = [pc EXCEPT ![cy] = "range"]
    /\ UNCHANGED <<c, kstat, missing, tokens, locals, iter, defers, ret, result, log>>

\* Token.Close, applied to the tokens of the deferred calls in ds
RECURSIVE RunDeferred(_, _)
RunDeferred(toks, ds) ==
    IF ds = <<>> THEN toks
    ELSE RunDeferred(
            [toks EXCEPT ![Head(ds).tok] =
                [@ EXCEPT !.open = FALSE, !.closes = @ + 1]],
            Tail(ds))

\* updateZfsArcStats returns: its deferred calls run, its frame is gone
Return(cy) ==
    /\ pc[cy] = "return"
    /\ tokens' = RunDeferred(tokens, defers[cy])
    /\ defers' = [defers EXCEPT ![cy] = <<>>]
    /\ iter' = [iter EXCEPT ![cy] = NoIter]
    /\ locals' = [locals EXCEPT ![Frame(cy)] = ZeroLocals]
    /\ pc' = [pc EXCEPT ![cy] = "update"]
    /\ UNCHANGED <<c, kstat, missing, ch, ret, result, log>>

\* the error handed on as it came
UpdateResultVerbatim(err) == err

\* Update: if err != nil, return errors.New("updateZfsArcStats: " + err.Error())
UpdateResult(err) ==
    IF err # nil THEN "updateZfsArcStats: " \o err ELSE nil

UpdateReturn(cy) ==
    /\ pc[cy] = "update"
    /\ result' = [result EXCEPT ![cy] = UpdateResult(ret[cy])]
    /\ ret' = [ret EXCEPT ![cy] = nil]
    /\ pc' = [pc EXCEPT ![cy] = "done"]
    /\ UNCHANGED <<c, kstat, missing, tokens, ch, locals, iter, defers, log>>

Step(cy, seeds) ==
    \/ OpenOK(cy)
    \/ \E e \in KstatErrs : OpenErr(cy, e)
    \/ DeferClose(cy)
    \/ LookupOK(cy)
    \/ \E e \in KstatErrs : LookupErr(cy, e)
    \/ \E seed \in seeds : RangeInit(cy, seed)
    \/ RangeNext(cy)
    \/ RangeEnd(cy)
    \/ GetNamedOK(cy)
    \/ \E e \in KstatErrs : GetNamedErr(cy, e)
    \/ Classify(cy)
    \/ Send(cy)
    \/ Return(cy)
    \/ UpdateReturn(cy)

(***************************************************************************)
(* Specifications.                                                         *)
(***************************************************************************)
\* One cycle, against every facility and under every seed.
Init == InitWith(0..MaxSnapshot, AnyOneMissing)
Next == \/ Call(1)
        \/ Step(1, AllSeeds)
Spec == Init /\ [][Next]_vars

\* Cycles one after the other: the next starts when the last has returned.
CallNext(cy) ==
    /\ \A other \in Cycles : other < cy => pc[other] = "done"
    /\ Call(cy)

InitSeq == InitWith(0..MaxSnapshot, FewMissing)
NextSeq == \E cy \in Cycles : CallNext(cy) \/ Step(cy, SeqSeeds)
SpecSeq == InitSeq /\ [][NextSeq]_vars

\* Cycles invoked concurrently, their statements interleaved.
InitConc == InitWith({1}, FewMissing)
NextConc == \E cy \in Cycles : Call(cy) \/ Step(cy, FewSeeds)
SpecConc == InitConc /\ [][NextConc]_vars

(***************************************************************************)
(* Vocabulary of the properties.                                           *)
(***************************************************************************)
\* s ends with suffix: s is some prefix followed by suffix
EndsWith(s, suffix) == \E i \in 0..Len(s) : SubSeq(s, i + 1, Len(s)) = suffix

EndsHitsOrMisses(f) == EndsWith(f, "_hits") \/ EndsWith(f, "_misses")

RECURSIVE Copies(_)
Copies(S) ==
    IF S = {} THEN 0
    ELSE LET m == CHOOSE x \in S : TRUE
         IN  CopiesIn(m, ch) + Copies(S \ {m})

\* what cycle cy has put on the channel
SentBy(cy) == {m \in BagToSet(ch) : m.from = cy}
NumSentBy(cy) == Copies(SentBy(cy))
NumSentAs(cy, name) == Copies({m \in SentBy(cy) : m.metric.desc.fqName = name})
NumOnChannel(metric) == Copies({m \in BagToSet(ch) : m.metric = metric})
TuplesOf(cy) ==
    {[name |-> m.metric.desc.fqName, kind |-> m.metric.valueType,
      value |-> m.metric.value, copies |-> CopiesIn(m, ch)] : m \in SentBy(cy)}

\* fully-qualified names of the descriptor table
TableNames == {c[member].fqName : member \in DOMAIN c}

Returned(cy) == pc[cy] = "done"
Failures(cy, op) == {call \in log[cy] : call.op = op /\ call.err # nil}
Fetched(cy) == {call.arg : call \in {x \in log[cy] : x.op = "GetNamed"}}
FetchedOK(cy) == {call.arg : call \in {x \in log[cy] : x.op = "GetNamed" /\ x.err = nil}}
\* the facility opened, the group resolved, every fetch succeeded, Update is back
Succeeded(cy) == Returned(cy) /\ \A call \in log[cy] : call.err = nil

\* C1: after a cycle that returned no error the channel holds, from that
\* cycle, exactly one sample under every name of the descriptor table and
\* no sample under any other name.
C1_OneSamplePerDescriptor ==
    \A cy \in Cycles :
        (Returned(cy) /\ result[cy] = nil) =>
            /\ \A name \in TableNames : NumSentAs(cy, name) = 1
            /\ \A m \in SentBy(cy) : m.metric.desc.fqName \in TableNames
            /\ Cardinality(TableNames) = Cardinality(DOMAIN c)

C1_Witness ==
    /\ Returned(1) /\ result[1] = nil
    /\ iter[1] = NoIter
    /\ NumSentBy(1) > 0
    /\ \E call \in log[1] : call.op = "GetNamed" /\ call.arg = "size"

\* C2 as claimed: a cycle in which everything succeeds sends 14 samples.
C2_FourteenSamples ==
    \A cy \in Cycles : Succeeded(cy) => NumSentBy(cy) = 14

\* C2, amended: a cycle in which the facility opens, the group resolves and
\* every fetch succeeds sends exactly 15 samples, one per entry of the map
\* literal.
C2_FifteenSamples ==
    \A cy \in Cycles : Succeeded(cy) => NumSentBy(cy) = 15

C2_Witness ==
    /\ Succeeded(1)
    /\ [op |-> "Open", arg |-> "", err |-> nil] \in log[1]
    /\ [op |-> "Lookup", arg |-> "arcstats", err |-> nil] \in log[1]
    /\ FetchedOK(1) = FieldNames

\* C3: every sample on the channel for field f is a Counter when f ends in
\* _hits or _misses and a Gauge when it does not, whatever was classified
\* before it.
C3_KindBySuffix ==
    \A m \in BagToSet(ch) : \A f \in FieldNames :
        m.metric.desc = c[MemberOf(f)] =>
            m.metric.valueType = IF EndsHitsOrMisses(f) THEN CounterValue ELSE GaugeValue

\* a Gauge sent right after a Counter, and a Counter right after a Gauge
C3_Witness ==
    /\ \E m \in SentBy(1) : m.metric.desc = c.arcstatsHits /\ m.metric.valueType = GaugeValue
    /\ \E m \in SentBy(1) : m.metric.desc = c.arcstatsMRUGhostHits /\ m.metric.valueType = CounterValue
    /\ \E m \in SentBy(1) : m.metric.desc = c.arcstatsOtherSize /\ m.metric.valueType = GaugeValue
    /\ \E m \in SentBy(1) : m.metric.desc = c.arcstatsDemandDataMisses /\ m.metric.valueType = CounterValue

\* C4: in a successful cycle the sample named ..._zfs_arcstats_hits_total is
\* a Counter, the one named ..._zfs_arcstats_c_bytes is a Gauge, and every
\* sample whose name ends in _total is a Counter.
C4_TotalsAreCounters ==
    \A cy \in Cycles :
        (Returned(cy) /\ result[cy] = nil) =>
            /\ \E m \in SentBy(cy) :
                  /\ EndsWith(m.metric.desc.fqName, "_zfs_arcstats_hits_total")
                  /\ m.metric.desc = c.arcstatsHits
                  /\ m.metric.valueType = CounterValue
            /\ \E m \in SentBy(cy) :
                  /\ EndsWith(m.metric.desc.fqName, "_zfs_arcstats_c_bytes")
                  /\ m.metric.desc = c.arcstatsC
                  /\ m.metric.valueType = GaugeValue
            /\ \A m \in SentBy(cy) :
                  EndsWith(m.metric.desc.fqName, "_total") =>
                      m.metric.valueType = CounterValue

\* C5: once a fetch has failed the cycle is on its way out: the failing
\* field is the only failure and the last field fetched, the samples on the
\* channel are exactly those of the fields fetched before it, one each and
\* fewer than there are fields, and Update's error carries the field name
\* and the facility's error.
C5_FailedFetchStopsCycle ==
    \A cy \in Cycles : \A call \in Failures(cy, "GetNamed") :
        /\ pc[cy] \in {"return", "update", "done"}
        /\ Failures(cy, "GetNamed") = {call}
        /\ Fetched(cy) = FetchedOK(cy) \cup {call.arg}
        /\ call.arg \notin FetchedOK(cy)
        /\ SentBy(cy) = {[from |-> cy,
                          metric |-> MustNewConstMetric(c[MemberOf(f)],
                              IF EndsHitsOrMisses(f) THEN CounterValue ELSE GaugeValue,
                              float64(kstat[f]))] : f \in FetchedOK(cy)}
        /\ NumSentBy(cy) = Cardinality(FetchedOK(cy))
        /\ NumSentBy(cy) <= Cardinality(FieldNames) - 1
        /\ NumSentAs(cy, c[MemberOf(call.arg)].fqName) = 0
        /\ Returned(cy) =>
              result[cy] = "updateZfsArcStats: ksZFSInfo.GetNamed(" \o call.arg
                               \o "): " \o call.err

\* the fetch of the field iterated last fails: all other samples are out
C5_Witness ==
    /\ Returned(1)
    /\ Failures(1, "GetNamed") # {}
    /\ NumSentBy(1) = Cardinality(FieldNames) - 1
    /\ result[1] # nil

\* C6: when Open or Lookup has failed, the cycle has fetched no field and
\* sent no sample, it is on its way out, and Update returns an error.
C6_NoFacilityNoSamples ==
    \A cy \in Cycles :
        (Failures(cy, "Open") # {} \/ Failures(cy, "Lookup") # {}) =>
            /\ pc[cy] \in {"return", "update", "done"}
            /\ Fetched(cy) = {}
            /\ SentBy(cy) = {}
            /\ Returned(cy) => result[cy] # nil

C6_Witness ==
    /\ Returned(1)
    /\ Failures(1, "Lookup") # {}
    /\ result[1] # nil
    /\ ch = EmptyBag

\* C7: a token opened by a cycle is open and never closed while the cycle
\* is between Open and the return of updateZfsArcStats, and is closed,
\* exactly once, from then on; a cycle opens at most one token.
C7_HandleClosedOnceOnReturn ==
    /\ \A t \in 1..Len(tokens) :
          LET cy == tokens[t].owner IN
            /\ pc[cy] \in {"defer", "lookup", "rangeinit", "range", "getnamed",
                            "classify", "send", "return"} =>
                  (tokens[t].open /\ tokens[t].closes = 0)
            /\ pc[cy] \in {"update", "done"} =>
                  (~tokens[t].open /\ tokens[t].closes = 1)
            /\ pc[cy] \notin {"idle", "open"}
    /\ \A t1, t2 \in 1..Len(tokens) : tokens[t1].owner = tokens[t2].owner => t1 = t2
    /\ \A cy \in Cycles :
          pc[cy] \in {"lookup", "rangeinit", "range", "getnamed", "classify", "send"} =>
              /\ L(cy).tok \in 1..Len(tokens)
              /\ tokens[L(cy).tok].open

\* a fetch failed in mid-iteration and the token is closed after the return
C7_Witness ==
    /\ Returned(1)
    /\ Failures(1, "GetNamed") # {}
    /\ NumSentBy(1) > 0
    /\ Len(tokens) = 1 /\ ~tokens[1].open /\ tokens[1].closes = 1

\* C8 as claimed: the error of a failed Open or Lookup is what Update
\* returns, unchanged.
C8_Verbatim ==
    \A cy \in Cycles : \A call \in Failures(cy, "Open") \cup Failures(cy, "Lookup") :
        Returned(cy) => result[cy] = call.err

\* C8, amended: updateZfsArcStats returns the error of a failed Open or
\* Lookup unchanged, and Update returns it with "updateZfsArcStats: " put
\* in front.
C8_PrefixedByUpdate ==
    \A cy \in Cycles : \A call \in Failures(cy, "Open") \cup Failures(cy, "Lookup") :
        /\ pc[cy] \in {"return", "update"} => ret[cy] = call.err
        /\ Returned(cy) => result[cy] = "updateZfsArcStats: " \o call.err

C8_Witness ==
    /\ Returned(1)
    /\ Failures(1, "Open") # {}
    /\ result[1] = "updateZfsArcStats: Permission denied"

\* C9: two cycles run one after the other, both successful, have sent the
\* same (name, kind, value) tuples, each the same number of times.
C9_SameTuplesEachCycle ==
    (Succeeded(1) /\ Succeeded(2)) => TuplesOf(1) = TuplesOf(2)

C9_Witness ==
    /\ Succeeded(1) /\ Succeeded(2)
    /\ Cardinality(TuplesOf(2)) = Cardinality(FieldNames)
    /\ \E t \in TuplesOf(2) : t.value.mant > 1

\* C10: with cycles interleaved, a frame's token and every deferred Close
\* belong to the cycle itself, no token is closed twice, none is open once
\* its cycle is back, the collector is as constructed, and when both cycles
\* succeed the channel holds, twice each, exactly the samples a lone cycle
\* sends.
C10_ConcurrentCyclesIndependent ==
    /\ c = NewZfsCollector
    /\ \A cy \in Cycles :
          /\ L(cy).tok # NoTok =>
                (L(cy).tok \in 1..Len(tokens) /\ tokens[L(cy).tok].owner = cy)
          /\ \A i \in 1..Len(defers[cy]) :
                /\ defers[cy][i].tok \in 1..Len(tokens)
                /\ tokens[defers[cy][i].tok].owner = cy
    /\ \A t \in 1..Len(tokens) :
          /\ tokens[t].closes <= 1
          /\ tokens[t].open = (pc[tokens[t].owner] \notin {"update", "done"})
    /\ (\A cy \in Cycles : Succeeded(cy)) =>
          /\ \A f \in FieldNames :
                NumOnChannel(MustNewConstMetric(c[MemberOf(f)],
                    IF EndsHitsOrMisses(f) THEN CounterValue ELSE GaugeValue,
                    float64(kstat[f]))) = Cardinality(Cycles)
          /\ Copies(BagToSet(ch)) = Cardinality(Cycles) * Cardinality(FieldNames)

\* both cycles back with success, the second one having opened first
C10_Witness ==
    /\ \A cy \in Cycles : Succeeded(cy)
    /\ Len(tokens) = 2
    /\ tokens[1].owner = 2
====
